---------------------------- MODULE Spec2Model ----------------------------
(***************************************************************************)
(* A model of scripts/extract_epub_outline.py: the text utilities, the     *)
(* chapter-number inference, the structural HTML parser (OutlineParser),   *)
(* parse_document, build_outline and main.                                 *)
(*                                                                         *)
(* A Python str is a sequence of characters; a character is a one-symbol   *)
(* string ("a", " ") or, for the few non-printable / non-ASCII characters  *)
(* the model uses, a named atom (US, EACUTE, ...).  A bytes value is a     *)
(* sequence of integers 0..255.  SHA-256 is modelled as an ideal           *)
(* (injective) digest: its hex digest is the hex rendering of the byte     *)
(* stream that was fed to it.                                              *)
(***************************************************************************)
EXTENDS Integers, Sequences, FiniteSets, TLC

VARIABLES
    \* ---- main / build_outline -------------------------------------------
    pc,            \* position of main: see the actions below
    input_exists,  \* epub_path.exists()
    ebooklib,      \* what load_spine_with_ebooklib does: "ok", "missing", "error"
    zip_ok,        \* whether load_spine_from_zip can read the container
    files,         \* the archive: href -> event stream of that document
    spine,         \* the archive's reading order: a sequence of hrefs
    engine,        \* build_outline's local `engine`
    spine_rows,    \* build_outline's local `spine_rows`
    row_index,     \* position of the for loop of build_outline in spine_rows
    chapters,      \* build_outline's local `chapters`
    seen_hrefs,    \* build_outline's local `seen_hrefs`
    parse_log,     \* history: the positions in spine_rows of the rows that were parsed
    outline,       \* main's local `outline` (NoOutline until build_outline returns)
    json_written,  \* the JSON output file has been written
    md_written,    \* the Markdown output file has been written
    exit_code,     \* what main returned (NoExit while running)
    \* ---- OutlineParser driven event by event ----------------------------
    parser,        \* the fields of one OutlineParser
    last_event,    \* history: the last event fed
    n_events,      \* number of events the model has fed
    doc_prefix,    \* history: what the parser had been fed before the model's events
    doc_href,      \* the href parse_document was called with
    chapter_out,   \* what parse_document returned (NoChapter while feeding)
    \* ---- stable_hash ----------------------------------------------------
    hash_a, hash_b, hash_x, hash_left, hash_right, hash_done,
    \* ---- infer_chapter_number -------------------------------------------
    inf_title, inf_href, inf_fallback, inf_result,
    \* ---- load_spine_from_zip and the loop of build_outline over its rows ---
    zip_opf_path,  \* the rootfile's full-path: where the package document is
    zip_archive,   \* the names of the archive's entries
    zip_itemrefs,  \* the idref of every itemref of the spine, in order
    zip_pos,       \* position of the loop of load_spine_from_zip in zip_itemrefs
    zip_order,     \* load_spine_from_zip's local `order`
    zip_rows,      \* the rows yielded so far
    zip_parsed     \* the rows build_outline passed to parse_document (None before)

mainVars == <<pc, input_exists, ebooklib, zip_ok, files, spine, engine, spine_rows,
              row_index, chapters, seen_hrefs, parse_log, outline, json_written,
              md_written, exit_code>>
parserVars == <<parser, last_event, n_events, doc_prefix, doc_href, chapter_out>>
hashVars == <<hash_a, hash_b, hash_x, hash_left, hash_right, hash_done>>
inferVars == <<inf_title, inf_href, inf_fallback, inf_result>>
zipVars == <<zip_opf_path, zip_archive, zip_itemrefs, zip_pos, zip_order, zip_rows,
             zip_parsed>>
vars == <<mainVars, parserVars, hashVars, inferVars, zipVars>>

(***************************************************************************)
(* Bounds of the model.                                                    *)
(***************************************************************************)
MaxSpine == 3      \* longest spine
MaxEvents == 4     \* longest event stream fed to the stand-alone parser
MaxStrLen == 2     \* longest argument of stable_hash
MaxPieces == 2     \* most pieces a title / href of infer_chapter_number is built of
MaxItemrefs == 3   \* most itemrefs of the spine load_spine_from_zip reads

(***************************************************************************)
(* Characters.                                                             *)
(***************************************************************************)
US == "U+001F"            \* the unit separator, "\x1f"
SUP2 == "U+00B2"          \* superscript two: str.isdigit() holds, int() raises
CAP_EACUTE == "U+00C9"    \* E with acute
EACUTE == "U+00E9"        \* e with acute
BACKTICK == "U+0060"      \* the grave accent

\* The printable ASCII characters, code points 32..126, in order.
Printable ==
    << " ", "!", "\"", "#", "$", "%", "&", "'", "(", ")", "*", "+", ",", "-", ".", "/",
       "0", "1", "2", "3", "4", "5", "6", "7", "8", "9", ":", ";", "<", "=", ">", "?",
       "@", "A", "B", "C", "D", "E", "F", "G", "H", "I", "J", "K", "L", "M", "N", "O",
       "P", "Q", "R", "S", "T", "U", "V", "W", "X", "Y", "Z", "[", "\\", "]", "^", "_",
       BACKTICK, "a", "b", "c", "d", "e", "f", "g", "h", "i", "j", "k", "l", "m", "n", "o",
       "p", "q", "r", "s", "t", "u", "v", "w", "x", "y", "z", "{", "|", "}", "~" >>

Chr(n) == Printable[n - 31]

Chars == {Printable[i] : i \in 1..Len(Printable)} \cup {"\t", "\n", US, SUP2, CAP_EACUTE, EACUTE}

\* ord(c): the code point of a character.
Ord ==
    [c \in Chars |->
        CASE c = "\t" -> 9
          [] c = "\n" -> 10
          [] c = US -> 31
          [] c = SUP2 -> 178
          [] c = CAP_EACUTE -> 201
          [] c = EACUTE -> 233
          [] OTHER -> 31 + (CHOOSE i \in 1..Len(Printable) : Printable[i] = c)]

AsciiDigits == {Chr(n) : n \in 48..57}
AsciiUpper == {Chr(n) : n \in 65..90}
AsciiLower == {Chr(n) : n \in 97..122}

\* [A-Za-z0-9] of WORD_RE.
WordReChars == AsciiDigits \cup AsciiUpper \cup AsciiLower
IsWordReChar(c) == c \in WordReChars

\* \s of a str pattern, and the characters str.strip() removes.
SpaceChars == {" ", "\t", "\n", US}
IsSpace(c) == c \in SpaceChars

\* \d of a str pattern (Unicode decimal digits; SUP2 is not one).
IsDecimal(c) == c \in AsciiDigits

\* str.isdigit().
DigitChars == AsciiDigits \cup {SUP2}
IsDigitChar(c) == c \in DigitChars

\* \w of a str pattern: alphanumerics and the underscore.
WordChars == AsciiDigits \cup AsciiUpper \cup AsciiLower \cup {"_", SUP2, CAP_EACUTE, EACUTE}
IsWordChar(c) == c \in WordChars

UpperChars == AsciiUpper \cup {CAP_EACUTE}
LowerChars == AsciiLower \cup {EACUTE}
IsUpperChar(c) == c \in UpperChars
IsLowerChar(c) == c \in LowerChars

\* str.lower() / str.casefold() of one character.
LowerChar(c) ==
    IF c \in AsciiUpper THEN Chr(Ord[c] + 32)
    ELSE IF c = CAP_EACUTE THEN EACUTE
    ELSE c

\* str.upper() of one character.
UpperChar(c) ==
    IF c \in AsciiLower THEN Chr(Ord[c] - 32)
    ELSE IF c = EACUTE THEN CAP_EACUTE
    ELSE c

\* str.lower() / str.casefold().
Lower(s) == [i \in 1..Len(s) |-> LowerChar(s[i])]

\* str.encode("utf-8") of one character (code points below 2048).
Utf8Char(c) ==
    IF Ord[c] < 128 THEN <<Ord[c]>>
    ELSE <<192 + (Ord[c] \div 64), 128 + (Ord[c] % 64)>>

RECURSIVE Utf8(_)
\* str.encode("utf-8"): one byte per character when all are ASCII, otherwise
\* computed by halves.
Utf8(s) ==
    IF \A i \in 1..Len(s) : Ord[s[i]] < 128 THEN [i \in 1..Len(s) |-> Ord[s[i]]]
    ELSE IF Len(s) = 1 THEN Utf8Char(s[1])
    ELSE Utf8(SubSeq(s, 1, Len(s) \div 2)) \o Utf8(SubSeq(s, (Len(s) \div 2) + 1, Len(s)))

RECURSIVE Str(_)
\* str(n) of a non-negative integer.
Str(n) == IF n < 10 THEN <<Chr(48 + n)>> ELSE Str(n \div 10) \o <<Chr(48 + (n % 10))>>

RECURSIVE IntOf(_)
\* int(s) of a non-empty string of ASCII digits.
IntOf(s) ==
    IF Len(s) = 1 THEN Ord[s[1]] - 48
    ELSE 10 * IntOf(SubSeq(s, 1, Len(s) - 1)) + (Ord[s[Len(s)]] - 48)

\* s[i:] with i counted from 1.
From(s, i) == SubSeq(s, i, Len(s))

(***************************************************************************)
(* Text utilities.                                                         *)
(***************************************************************************)
RECURSIVE LStrip(_)
LStrip(s) == IF s # <<>> /\ IsSpace(Head(s)) THEN LStrip(Tail(s)) ELSE s

RECURSIVE RStrip(_)
RStrip(s) ==
    IF s # <<>> /\ IsSpace(s[Len(s)]) THEN RStrip(SubSeq(s, 1, Len(s) - 1)) ELSE s

\* str.strip().
Strip(s) == RStrip(LStrip(s))

RECURSIVE SubWs(_)
\* WS_RE.sub(" ", value): every maximal run of whitespace becomes one space.
SubWs(s) ==
    IF s = <<>> THEN <<>>
    ELSE IF IsSpace(Head(s)) THEN <<" ">> \o SubWs(LStrip(Tail(s)))
    ELSE <<Head(s)>> \o SubWs(Tail(s))

normalize_space(value) == Strip(SubWs(value))

RECURSIVE WordRunEnd(_, _)
\* The index after the maximal run of [A-Za-z0-9] that starts at i.
WordRunEnd(s, i) ==
    IF i <= Len(s) /\ IsWordReChar(s[i]) THEN WordRunEnd(s, i + 1) ELSE i

\* The index after the match of WORD_RE that starts at i (s[i] is a word character).
WordMatchEnd(s, i) ==
    LET j == WordRunEnd(s, i)
    IN  IF j + 1 <= Len(s) /\ s[j] = "'" /\ IsWordReChar(s[j + 1])
        THEN WordRunEnd(s, j + 1)
        ELSE j

RECURSIVE CountWordsFrom(_, _)
CountWordsFrom(s, i) ==
    IF i > Len(s) THEN 0
    ELSE IF IsWordReChar(s[i]) THEN 1 + CountWordsFrom(s, WordMatchEnd(s, i))
    ELSE CountWordsFrom(s, i + 1)

\* len(WORD_RE.findall(value)).
count_words(value) == CountWordsFrom(value, 1)

HexDigits == <<"0", "1", "2", "3", "4", "5", "6", "7", "8", "9", "a", "b", "c", "d", "e", "f">>

\* hashlib's hexdigest() of a digest that was fed the byte stream `stream`: two
\* hex digits per byte.
hexdigest(stream) ==
    [i \in 1..(2 * Len(stream)) |->
        IF i % 2 = 1 THEN HexDigits[(stream[(i + 1) \div 2] \div 16) + 1]
        ELSE HexDigits[(stream[i \div 2] % 16) + 1]]

\* What stable_hash feeds the digest for one part: the part, then the separator.
HashPartNoSeparator(part) == Utf8(part)
HashPart(part) == Utf8(part) \o <<31>>

RECURSIVE HashStream(_)
\* The byte stream stable_hash(*parts) feeds the digest.
HashStream(parts) ==
    IF parts = <<>> THEN <<>> ELSE HashPart(Head(parts)) \o HashStream(Tail(parts))

stable_hash(parts) == hexdigest(HashStream(parts))

(***************************************************************************)
(* Chapter-number inference: CHAPTER_RE, CH_RE and infer_chapter_number.   *)
(***************************************************************************)
\* A regex without a match is <<>>; a match is <<n>>, n = int(match.group(1)).
NoMatch == <<>>

\* Whether s[i] exists and is a \w character.
WordAt(s, i) == i >= 1 /\ i <= Len(s) /\ IsWordChar(s[i])

\* \b between s[i-1] and s[i].
Boundary(s, i) == WordAt(s, i - 1) # WordAt(s, i)

\* Whether the lower-case literal `lit` matches at s[i], letter case ignored.
MatchLit(s, i, lit) ==
    /\ i + Len(lit) - 1 <= Len(s)
    /\ Lower(SubSeq(s, i, i + Len(lit) - 1)) = lit

RECURSIVE SpaceRunEnd(_, _)
\* \s* from s[i]: the index after the run.  (A shorter run is followed by a
\* whitespace character, which neither 0* nor \d takes, so only the maximal
\* run can lead to a match.)
SpaceRunEnd(s, i) == IF i <= Len(s) /\ IsSpace(s[i]) THEN SpaceRunEnd(s, i + 1) ELSE i

RECURSIVE SepRunEnd(_, _)
\* [_\-\s]* from s[i]: the index after the run (maximal, as for \s*).
SepRunEnd(s, i) ==
    IF i <= Len(s) /\ (s[i] \in {"_", "-"} \/ IsSpace(s[i])) THEN SepRunEnd(s, i + 1) ELSE i

RECURSIVE ZeroRunEnd(_, _)
ZeroRunEnd(s, i) == IF i <= Len(s) /\ s[i] = "0" THEN ZeroRunEnd(s, i + 1) ELSE i

\* 0*(\d{1,3})\b from s[j].  0* is greedy and gives zeros back one at a time,
\* \d{1,3} tries three digits, then two, then one: the match is the one with
\* the most zeros taken by 0*, and then the most digits in the group.
NumberTail(s, j) ==
    LET z == ZeroRunEnd(s, j) - j
        ok(k, n) == /\ j + k + n - 1 <= Len(s)
                    /\ \A t \in 0..(n - 1) : IsDecimal(s[j + k + t])
                    /\ Boundary(s, j + k + n)
        cands == {c \in (0..z) \X (1..3) : ok(c[1], c[2])}
    IN  IF cands = {} THEN NoMatch
        ELSE LET best == CHOOSE c \in cands :
                            \A d \in cands : d[1] < c[1] \/ (d[1] = c[1] /\ d[2] <= c[2])
             IN  <<IntOf(SubSeq(s, j + best[1], j + best[1] + best[2] - 1))>>

\* CHAPTER_RE.match(s, i): \bchapter\s*0*(\d{1,3})\b at s[i].
ChapterReAt(s, i) ==
    IF MatchLit(s, i, <<"c", "h", "a", "p", "t", "e", "r">>) /\ Boundary(s, i)
    THEN NumberTail(s, SpaceRunEnd(s, i + 7))
    ELSE NoMatch

\* CH_RE.match(s, i): \bch(?:apter)?[_\-\s]*0*(\d{1,3})\b at s[i]; the optional
\* group is tried first with "apter", then without.
ChReAt(s, i) ==
    IF MatchLit(s, i, <<"c", "h">>) /\ Boundary(s, i)
    THEN LET withApter == IF MatchLit(s, i + 2, <<"a", "p", "t", "e", "r">>)
                          THEN NumberTail(s, SepRunEnd(s, i + 7))
                          ELSE NoMatch
         IN  IF withApter # NoMatch THEN withApter
             ELSE NumberTail(s, SepRunEnd(s, i + 2))
    ELSE NoMatch

\* The least element of a non-empty set of integers.
MinOf(S) == CHOOSE x \in S : \A y \in S : x <= y

\* CHAPTER_RE.search(s): the match at the leftmost position that has one.
ChapterReSearch(s) ==
    LET hits == {i \in 1..Len(s) : ChapterReAt(s, i) # NoMatch}
    IN  IF hits = {} THEN NoMatch ELSE ChapterReAt(s, MinOf(hits))

\* CH_RE.search(s).
ChReSearch(s) ==
    LET hits == {i \in 1..Len(s) : ChReAt(s, i) # NoMatch}
    IN  IF hits = {} THEN NoMatch ELSE ChReAt(s, MinOf(hits))

\* The candidates of infer_chapter_number, in the order the loop tries them.
CandidatesHrefFirst(title, href) == <<href, title>>
Candidates(title, href) == <<title, href>>

RECURSIVE InferFrom(_, _)
\* The loop of infer_chapter_number over the remaining candidates.
InferFrom(candidates, fallback_order) ==
    IF candidates = <<>> THEN fallback_order
    ELSE LET chapter_match == ChapterReSearch(Head(candidates))
             ch_match == ChReSearch(Head(candidates))
         IN  IF chapter_match # NoMatch THEN chapter_match[1]
             ELSE IF ch_match # NoMatch THEN ch_match[1]
             ELSE InferFrom(Tail(candidates), fallback_order)

infer_chapter_number(title, href, fallback_order) ==
    InferFrom(Candidates(title, href), fallback_order)

\* str.title(): a cased character is upper-cased when the character before it
\* is not cased, and lower-cased when it is.
Title(s) ==
    [i \in 1..Len(s) |->
        LET cased(c) == IsUpperChar(c) \/ IsLowerChar(c)
        IN  IF i > 1 /\ cased(s[i - 1]) THEN LowerChar(s[i]) ELSE UpperChar(s[i])]

RECURSIVE SplitPath(_, _)
\* The components of a POSIX path: the pieces between "/", the empty ones and
\* "." dropped (pathlib's parsing).  `cur` is the piece being read.
SplitPath(s, cur) ==
    LET piece == IF cur = <<>> \/ cur = <<".">> THEN <<>> ELSE <<cur>>
    IN  IF s = <<>> THEN piece
        ELSE IF Head(s) = "/" THEN piece \o SplitPath(Tail(s), <<>>)
        ELSE SplitPath(Tail(s), Append(cur, Head(s)))

\* Path(value).name: the last component ("" when there is none).
PathName(value) ==
    LET parts == SplitPath(value, <<>>)
    IN  IF parts = <<>> THEN <<>> ELSE parts[Len(parts)]

\* Path(value).stem: the name without its last suffix; a dot that leads or
\* ends the name starts no suffix.
PathStem(value) ==
    LET name == PathName(value)
        dots == {i \in 1..Len(name) : name[i] = "."}
        last == CHOOSE i \in dots : \A j \in dots : j <= i
    IN  IF dots # {} /\ last > 1 /\ last < Len(name) THEN SubSeq(name, 1, last - 1) ELSE name

RECURSIVE SubDashes(_)
\* re.sub(r"[_\-]+", " ", stem): every maximal run of "_" / "-" becomes one space.
SubDashes(s) ==
    IF s = <<>> THEN <<>>
    ELSE IF Head(s) \in {"_", "-"}
         THEN IF Len(s) > 1 /\ s[2] \in {"_", "-"} THEN SubDashes(Tail(s))
              ELSE <<" ">> \o SubDashes(Tail(s))
    ELSE <<Head(s)>> \o SubDashes(Tail(s))

slug_to_title(value) ==
    LET stem == Strip(SubDashes(PathStem(value)))
    IN  IF stem # <<>> THEN Title(stem) ELSE value

(***************************************************************************)
(* OutlineParser.  An Optional[int] is <<>> (None) or <<n>>.               *)
(***************************************************************************)
None == <<>>

TagScript == <<"s", "c", "r", "i", "p", "t">>
TagStyle == <<"s", "t", "y", "l", "e">>
TagTitle == <<"t", "i", "t", "l", "e">>

\* OutlineParser.__init__.  _content_digest is the byte stream fed to the
\* digest so far; `raised` records that a handler raised: feed() then stops
\* and parse_document swallows the exception.
NewParser ==
    [sections |-> <<>>,
     total_word_count |-> 0,
     in_title |-> FALSE,
     skip_depth |-> 0,
     title_parts |-> <<>>,
     heading_level |-> None,
     heading_parts |-> <<>>,
     active_section_index |-> None,
     content_digest |-> <<>>,
     raised |-> FALSE]

RECURSIVE Join(_, _)
\* sep.join(parts).
Join(parts, sep) ==
    IF parts = <<>> THEN <<>>
    ELSE IF Len(parts) = 1 THEN parts[1]
    ELSE parts[1] \o sep \o Join(Tail(parts), sep)

\* The property document_title.
document_title(p) == normalize_space(Join(p.title_parts, <<" ">>))

\* The property content_hash.
content_hash(p) == hexdigest(p.content_digest)

\* lower.startswith("h") and len(lower) == 2 and lower[1].isdigit()
IsHeadingTag(lower) == Len(lower) = 2 /\ lower[1] = "h" /\ IsDigitChar(lower[2])

\* Whether int(lower[1]) raises ValueError: isdigit() holds of characters
\* that are no decimal digits.
IntRaises(lower) == ~IsDecimal(lower[2])

\* _record_word_chunk without the test that no heading is open.
RecordWordChunkWhileHeadingOpen(p, chunk) ==
    LET words == count_words(chunk)
        counted == [p EXCEPT !.total_word_count = @ + words,
                             !.content_digest = @ \o Utf8(chunk) \o <<10>>]
    IN  IF words = 0 THEN p
        ELSE IF p.active_section_index # None
        THEN [counted EXCEPT
                 !.sections[p.active_section_index[1] + 1].word_count = @ + words]
        ELSE counted

\* _record_word_chunk
RecordWordChunk(p, chunk) ==
    LET words == count_words(chunk)
        counted == [p EXCEPT !.total_word_count = @ + words,
                             !.content_digest = @ \o Utf8(chunk) \o <<10>>]
    IN  IF words = 0 THEN p
        ELSE IF p.heading_level = None /\ p.active_section_index # None
        THEN [counted EXCEPT
                 !.sections[p.active_section_index[1] + 1].word_count = @ + words]
        ELSE counted

\* handle_starttag
HandleStarttag(p, tag) ==
    LET lower == Lower(tag)
    IN  IF lower \in {TagScript, TagStyle} THEN [p EXCEPT !.skip_depth = @ + 1]
        ELSE IF lower = TagTitle THEN [p EXCEPT !.in_title = TRUE]
        ELSE IF IsHeadingTag(lower)
        THEN IF IntRaises(lower) THEN [p EXCEPT !.raised = TRUE]
             ELSE [p EXCEPT !.heading_level = <<IntOf(<<lower[2]>>)>>,
                            !.heading_parts = <<>>]
        ELSE p

\* handle_endtag where any heading close tag finalizes the open heading.
HandleEndtagAnyLevel(p, tag) ==
    LET lower == Lower(tag)
        heading_title == normalize_space(Join(p.heading_parts, <<" ">>))
        closed == [p EXCEPT !.heading_level = None, !.heading_parts = <<>>]
    IN  IF lower \in {TagScript, TagStyle}
        THEN IF p.skip_depth > 0 THEN [p EXCEPT !.skip_depth = @ - 1] ELSE p
        ELSE IF lower = TagTitle THEN [p EXCEPT !.in_title = FALSE]
        ELSE IF p.heading_level # None /\ IsHeadingTag(lower)
        THEN IF heading_title # <<>>
             THEN [closed EXCEPT
                      !.sections = Append(@, [order |-> Len(p.sections) + 1,
                                              level |-> p.heading_level[1],
                                              title |-> heading_title,
                                              word_count |-> 0]),
                      !.active_section_index = <<Len(p.sections)>>]
             ELSE closed
        ELSE p

\* handle_endtag where a close tag of a skip region always lowers the depth.
HandleEndtagAlwaysLowers(p, tag) ==
    LET lower == Lower(tag)
        heading_title == normalize_space(Join(p.heading_parts, <<" ">>))
        closed == [p EXCEPT !.heading_level = None, !.heading_parts = <<>>]
    IN  IF lower \in {TagScript, TagStyle}
        THEN [p EXCEPT !.skip_depth = @ - 1]
        ELSE IF lower = TagTitle THEN [p EXCEPT !.in_title = FALSE]
        ELSE IF p.heading_level # None /\ IsHeadingTag(lower)
        THEN IF IntRaises(lower) THEN [p EXCEPT !.raised = TRUE]
             ELSE IF IntOf(<<lower[2]>>) = p.heading_level[1]
             THEN IF heading_title # <<>>
                  THEN [closed EXCEPT
                           !.sections = Append(@, [order |-> Len(p.sections) + 1,
                                                   level |-> p.heading_level[1],
                                                   title |-> heading_title,
                                                   word_count |-> 0]),
                           !.active_section_index = <<Len(p.sections)>>]
                  ELSE closed
             ELSE p
        ELSE p

\* handle_endtag
HandleEndtag(p, tag) ==
    LET lower == Lower(tag)
        heading_title == normalize_space(Join(p.heading_parts, <<" ">>))
        closed == [p EXCEPT !.heading_level = None, !.heading_parts = <<>>]
    IN  IF lower \in {TagScript, TagStyle}
        THEN IF p.skip_depth > 0 THEN [p EXCEPT !.skip_depth = @ - 1] ELSE p
        ELSE IF lower = TagTitle THEN [p EXCEPT !.in_title = FALSE]
        ELSE IF p.heading_level # None /\ IsHeadingTag(lower)
        THEN IF IntRaises(lower) THEN [p EXCEPT !.raised = TRUE]
             ELSE IF IntOf(<<lower[2]>>) = p.heading_level[1]
             THEN IF heading_title # <<>>
                  THEN [closed EXCEPT
                           !.sections = Append(@, [order |-> Len(p.sections) + 1,
                                                   level |-> p.heading_level[1],
                                                   title |-> heading_title,
                                                   word_count |-> 0]),
                           !.active_section_index = <<Len(p.sections)>>]
                  ELSE closed
             ELSE p
        ELSE p

\* handle_data after its skip-depth test: the chunk is normalized, recorded and
\* appended to the open buffers.
HandleDataBody(p, data) ==
    LET chunk == normalize_space(data)
        recorded == RecordWordChunk(p, chunk)
        titled == IF p.in_title
                  THEN [recorded EXCEPT !.title_parts = Append(@, chunk)]
                  ELSE recorded
    IN  IF chunk = <<>> THEN p
        ELSE IF p.heading_level # None
        THEN [titled EXCEPT !.heading_parts = Append(@, chunk)]
        ELSE titled

\* handle_data without its skip-depth test.
HandleDataIgnoringSkipDepth(p, data) == HandleDataBody(p, data)

\* handle_data
HandleData(p, data) ==
    IF p.skip_depth > 0 THEN p ELSE HandleDataBody(p, data)

\* An event of the tokenizer: a call of one of the three handlers.
StartEvent(tag) == [kind |-> "starttag", arg |-> tag]
EndEvent(tag) == [kind |-> "endtag", arg |-> tag]
DataEvent(data) == [kind |-> "data", arg |-> data]

\* HTMLParser's dispatch of one event to its handler.
Handle(p, ev) ==
    CASE ev.kind = "starttag" -> HandleStarttag(p, ev.arg)
      [] ev.kind = "endtag" -> HandleEndtag(p, ev.arg)
      [] ev.kind = "data" -> HandleData(p, ev.arg)

\* A feed that loses what the parser had accumulated when a handler raises.
FeedDiscardingOnRaise(p, events) ==
    LET RECURSIVE Go(_, _)
        Go(q, evs) == IF evs = <<>> \/ q.raised THEN q ELSE Go(Handle(q, Head(evs)), Tail(evs))
        fed == Go(p, events)
    IN  IF fed.raised THEN [NewParser EXCEPT !.raised = TRUE] ELSE fed

RECURSIVE Feed(_, _)
\* parser.feed(...); parser.close() inside the try of parse_document: the
\* events are handled in order until one raises.
Feed(p, events) ==
    IF events = <<>> \/ p.raised THEN p
    ELSE Feed(Handle(p, Head(events)), Tail(events))

(***************************************************************************)
(* parse_document.                                                         *)
(***************************************************************************)
\* A chapter title that prefers the <title> content to the first heading.
ChapterTitleTitleFirst(p, href) ==
    IF document_title(p) # <<>> THEN document_title(p)
    ELSE IF p.sections # <<>> THEN p.sections[1].title
    ELSE slug_to_title(href)

\* chapter_title = first_heading or parser.document_title or slug_to_title(href)
ChapterTitle(p, href) ==
    LET first_heading == IF p.sections # <<>> THEN p.sections[1].title ELSE <<>>
    IN  IF first_heading # <<>> THEN first_heading
        ELSE IF document_title(p) # <<>> THEN document_title(p)
        ELSE slug_to_title(href)

\* section_rows that always keeps every heading.
SectionRowsKeepFirst(headings, chapter_title) == headings

\* section_rows without the test of the first heading's level.
SectionRowsAnyLevel(headings, chapter_title) ==
    IF /\ headings # <<>>
       /\ Lower(normalize_space(headings[1].title)) = Lower(normalize_space(chapter_title))
    THEN Tail(headings)
    ELSE headings

\* section_rows: the headings, without the first when it mirrors the title.
SectionRows(headings, chapter_title) ==
    IF /\ headings # <<>>
       /\ Lower(normalize_space(headings[1].title)) = Lower(normalize_space(chapter_title))
       /\ headings[1].level <= 2
    THEN Tail(headings)
    ELSE headings

\* One emitted section that keeps the parser's own order.
EmittedSectionParserOrder(href, section_index, section) ==
    [order |-> section.order,
     level |-> section.level,
     title |-> section.title,
     href |-> href \o <<"#", "s">> \o Str(section.order),
     word_count |-> section.word_count,
     hash |-> stable_hash(<<href, Str(section.level), section.title, Str(section.word_count)>>)]

\* One emitted section: the body of the loop over enumerate(section_rows, start=1).
EmittedSection(href, section_index, section) ==
    [order |-> section_index,
     level |-> section.level,
     title |-> section.title,
     href |-> href \o <<"#", "s">> \o Str(section_index),
     word_count |-> section.word_count,
     hash |-> stable_hash(<<href, Str(section.level), section.title, Str(section.word_count)>>)]

\* What parse_document builds from the parser once feeding is over.
ParseResult(order, href, p) ==
    LET chapter_title == ChapterTitle(p, href)
        section_rows == SectionRows(p.sections, chapter_title)
    IN  [order |-> order,
         chapter_number |-> infer_chapter_number(chapter_title, href, order),
         href |-> href,
         title |-> chapter_title,
         word_count |-> p.total_word_count,
         hash |-> stable_hash(<<href, chapter_title, Str(p.total_word_count), content_hash(p)>>),
         sections |-> [i \in 1..Len(section_rows) |-> EmittedSection(href, i, section_rows[i])]]

parse_document(order, href, content) == ParseResult(order, href, Feed(NewParser, content))

(***************************************************************************)
(* Inputs of the model.                                                    *)
(***************************************************************************)
RECURSIVE SeqsUpTo(_, _)
\* The sequences of at most n elements of S.
SeqsUpTo(S, n) ==
    IF n = 0 THEN {<<>>}
    ELSE SeqsUpTo(S, n - 1) \cup {Append(q, x) : q \in SeqsUpTo(S, n - 1), x \in S}

RECURSIVE Flatten(_)
\* The concatenation of a sequence of strings.
Flatten(pieces) == IF pieces = <<>> THEN <<>> ELSE Head(pieces) \o Flatten(Tail(pieces))

TagH1 == <<"h", "1">>
TagH2 == <<"h", "2">>
TagH3 == <<"h", "3">>
TagP == <<"p">>
TagStyleUpper == <<"S", "T", "Y", "L", "E">>
TagHSup2 == <<"h", SUP2>>

TextChapter1 == <<"C", "h", "a", "p", "t", "e", "r", " ", "1">>
TextHelloWorld == <<"H", "e", "l", "l", "o", " ", "w", "o", "r", "l", "d">>
TextIntro == <<"I", "n", "t", "r", "o">>
TextMoreWordsHere ==
    <<"M", "o", "r", "e", " ", "w", "o", "r", "d", "s", " ", "h", "e", "r", "e">>
TextScriptBody ==
    <<"v", "a", "r", " ", "x", " ", "=", " ", "\"", "c", "h", "a", "p", "t", "e", "r",
      " ", "9", "\"", ";">>
TextRealText == <<"r", "e", "a", "l", " ", "t", "e", "x", "t">>
TextCover == <<"C", "o", "v", "e", "r">>
TextStars == <<"*", "*", "*">>
TextNotes == <<"N", "o", "t", "e", "s">>
TextTwoWords == <<" ", "a", "\n", " ", "b">>
TextBlank == <<" ">>

\* <h1>Chapter 1</h1><p>Hello world</p><h2>Intro</h2><p>More words here</p>
DocExample ==
    <<StartEvent(TagH1), DataEvent(TextChapter1), EndEvent(TagH1),
      StartEvent(TagP), DataEvent(TextHelloWorld), EndEvent(TagP),
      StartEvent(TagH2), DataEvent(TextIntro), EndEvent(TagH2),
      StartEvent(TagP), DataEvent(TextMoreWordsHere), EndEvent(TagP)>>

\* <script>var x = "chapter 9";</script><p>real text</p>
DocScript ==
    <<StartEvent(TagScript), DataEvent(TextScriptBody), EndEvent(TagScript),
      StartEvent(TagP), DataEvent(TextRealText), EndEvent(TagP)>>

\* A document without any text: <p></p>
DocEmpty == <<StartEvent(TagP), EndEvent(TagP)>>

\* A cover page: <title>Cover</title>, nothing in the body.
DocTitleOnly == <<StartEvent(TagTitle), DataEvent(TextCover), EndEvent(TagTitle)>>

\* <h3>***</h3>: a heading without a single word.
DocStarsH3 == <<StartEvent(TagH3), DataEvent(TextStars), EndEvent(TagH3)>>

\* <p>Intro</p><h2>Notes</h2><h&sup2;>real text: the tag h with a superscript
\* two makes handle_starttag raise, and the text after it is never handled.
DocBroken ==
    <<StartEvent(TagP), DataEvent(TextIntro), EndEvent(TagP),
      StartEvent(TagH2), DataEvent(TextNotes), EndEvent(TagH2),
      StartEvent(TagHSup2), DataEvent(TextRealText)>>

\* <h&sup2;>Intro: the very first event raises.
DocBrokenAtOnce == <<StartEvent(TagHSup2), DataEvent(TextIntro)>>

DocSet == {DocExample, DocEmpty, DocTitleOnly, DocStarsH3}

\* The documents of the runs over malformed markup.
DocSetMalformed == {DocExample, DocBroken, DocBrokenAtOnce}

HrefCh01 == <<"c", "h", "0", "1", ".", "x", "h", "t", "m", "l">>
HrefSame == <<"s", "a", "m", "e", ".", "x", "h", "t", "m", "l">>
HrefCover == <<"c", "o", "v", "e", "r", ".", "x", "h", "t", "m", "l">>
Hrefs == {HrefCh01, HrefSame, HrefCover}
\* An href whose stem holds nothing but a separator.
HrefBlankStem == <<"_", ".", "x", "h", "t", "m", "l">>

\* The events the stand-alone parser is fed.
ParserTags == {TagScript, TagStyleUpper, TagTitle, TagH2, TagH3, TagP, TagHSup2}
ParserTexts == {TextIntro, TextTwoWords, TextStars, TextBlank}
ParserEvents ==
    {StartEvent(t) : t \in ParserTags} \cup {EndEvent(t) : t \in ParserTags}
        \cup {DataEvent(d) : d \in ParserTexts}

\* What the stand-alone parser has been fed before the model feeds it events.
PrefixH2 == <<StartEvent(TagH2), DataEvent(TextChapter1), EndEvent(TagH2)>>
PrefixH3 == <<StartEvent(TagH3), DataEvent(TextNotes), EndEvent(TagH3)>>
Prefixes == {<<>>, PrefixH2, PrefixH3, DocScript, DocExample}
ParserHrefs == {HrefCh01, HrefBlankStem}

\* The arguments of stable_hash.
HashAlphabet == {"a", "b", "c", US, EACUTE}
HashStrings == SeqsUpTo(HashAlphabet, MaxStrLen)

\* The titles and hrefs of infer_chapter_number.
PieceChapter07 == <<"C", "h", "a", "p", "t", "e", "r", " ", "0", "7">>
PieceCh12 == <<"c", "h", "_", "1", "2">>
PieceCh5 == <<"c", "h", " ", "5", " ">>
InferPieces == {PieceChapter07, PieceCh12, PieceCh5, <<"x">>, <<"0">>}
InferStrings == {Flatten(q) : q \in SeqsUpTo(InferPieces, MaxPieces)}
Fallbacks == {3, 12}

(***************************************************************************)
(* The idle values of the variables a specification does not use.          *)
(***************************************************************************)
MainIdle ==
    /\ pc = "idle" /\ input_exists = "idle" /\ ebooklib = "idle" /\ zip_ok = "idle"
    /\ files = "idle" /\ spine = "idle" /\ engine = "idle" /\ spine_rows = "idle"
    /\ row_index = "idle" /\ chapters = "idle" /\ seen_hrefs = "idle"
    /\ parse_log = "idle" /\ outline = "idle" /\ json_written = "idle"
    /\ md_written = "idle" /\ exit_code = "idle"

ParserIdle ==
    /\ parser = "idle" /\ last_event = "idle" /\ n_events = "idle"
    /\ doc_prefix = "idle" /\ doc_href = "idle" /\ chapter_out = "idle"

HashIdle ==
    /\ hash_a = "idle" /\ hash_b = "idle" /\ hash_x = "idle"
    /\ hash_left = "idle" /\ hash_right = "idle" /\ hash_done = "idle"

InferIdle ==
    /\ inf_title = "idle" /\ inf_href = "idle" /\ inf_fallback = "idle"
    /\ inf_result = "idle"

ZipIdle ==
    /\ zip_opf_path = "idle" /\ zip_archive = "idle" /\ zip_itemrefs = "idle"
    /\ zip_pos = "idle" /\ zip_order = "idle" /\ zip_rows = "idle"
    /\ zip_parsed = "idle"

(***************************************************************************)
(* stable_hash on two splits of the same text.                             *)
(***************************************************************************)
InitHash ==
    /\ hash_a \in HashStrings
    /\ hash_b \in HashStrings
    /\ hash_x = 0
    /\ hash_left = None
    /\ hash_right = None
    /\ hash_done = FALSE
    /\ MainIdle /\ ParserIdle /\ InferIdle /\ ZipIdle

\* stable_hash(a, b) and stable_hash(a + x, b[len(x):]) for a non-empty prefix
\* x of b; hash_x is the length of x.
StableHashPair ==
    /\ ~hash_done
    /\ \E k \in 1..Len(hash_b) :
          /\ hash_x' = k
          /\ hash_left' = stable_hash(<<hash_a, hash_b>>)
          /\ hash_right' = stable_hash(<<hash_a \o SubSeq(hash_b, 1, k), From(hash_b, k + 1)>>)
    /\ hash_done' = TRUE
    /\ UNCHANGED <<hash_a, hash_b, mainVars, parserVars, inferVars, zipVars>>

NextHash == StableHashPair

SpecHash == InitHash /\ [][NextHash]_vars

(***************************************************************************)
(* infer_chapter_number on its own.                                        *)
(***************************************************************************)
InitInfer ==
    /\ inf_title \in InferStrings
    /\ inf_href \in InferStrings
    /\ inf_fallback \in Fallbacks
    /\ inf_result = None
    /\ MainIdle /\ ParserIdle /\ HashIdle /\ ZipIdle

InferChapterNumber ==
    /\ inf_result = None
    /\ inf_result' = <<infer_chapter_number(inf_title, inf_href, inf_fallback)>>
    /\ UNCHANGED <<inf_title, inf_href, inf_fallback, mainVars, parserVars, hashVars, zipVars>>

NextInfer == InferChapterNumber

SpecInfer == InitInfer /\ [][NextInfer]_vars

(***************************************************************************)
(* One parse_document call, the parser driven event by event.              *)
(***************************************************************************)
NoEvent == [kind |-> "none", arg |-> <<>>]

InitParser ==
    /\ doc_prefix \in Prefixes
    /\ parser = Feed(NewParser, doc_prefix)
    /\ last_event = NoEvent
    /\ n_events = 0
    /\ doc_href = None
    /\ chapter_out = None
    /\ MainIdle /\ HashIdle /\ InferIdle /\ ZipIdle

\* The tokenizer hands the parser one more event.
FeedEvent(ev) ==
    /\ chapter_out = None
    /\ ~parser.raised
    /\ n_events < MaxEvents
    /\ parser' = Handle(parser, ev)
    /\ last_event' = ev
    /\ n_events' = n_events + 1
    /\ UNCHANGED <<doc_prefix, doc_href, chapter_out, mainVars, hashVars, inferVars, zipVars>>

FeedStarttag == \E t \in ParserTags : FeedEvent(StartEvent(t))

FeedEndtag == \E t \in ParserTags : FeedEvent(EndEvent(t))

FeedData == \E d \in ParserTexts : FeedEvent(DataEvent(d))

\* The document ends, or a handler has raised: parse_document builds the
\* chapter.  The href it was called with is first used here.
ParseDocumentReturn ==
    /\ chapter_out = None
    /\ \E href \in ParserHrefs :
          /\ doc_href' = href
          /\ chapter_out' = <<ParseResult(1, href, parser)>>
    /\ UNCHANGED <<parser, last_event, n_events, doc_prefix, mainVars, hashVars, inferVars, zipVars>>

NextParser == FeedStarttag \/ FeedEndtag \/ FeedData \/ ParseDocumentReturn

SpecParser == InitParser /\ [][NextParser]_vars

(***************************************************************************)
(* main and build_outline.                                                 *)
(*                                                                         *)
(* pc: "start" (before the test of the input path), "load" (build_outline  *)
(* selects the spine strategy), "loop" (its loop over spine_rows),         *)
(* "write_json", "write_md", "report" (the writes and the summary of       *)
(* main), "done" (main has returned), "raised" (an exception left main).   *)
(* The header fields of the outline that come from the clock and the file  *)
(* system (generated_at, source_epub, source_sha256, source_size_bytes)    *)
(* are left out; that computing them can fail is kept.                     *)
(***************************************************************************)
\* The rows both spine strategies yield for the archive: (order, href, content).
SpineRows(fs, sp) ==
    [i \in 1..Len(sp) |-> [order |-> i, href |-> sp[i], content |-> fs[sp[i]]]]

\* if href in seen_hrefs
AlreadySeenNever(href, seen) == FALSE
AlreadySeen(href, seen) == href \in seen

\* The order parse_document is called with: order=len(chapters) + 1
NextChapterOrderOfRow(chs, row) == row.order
\* An order that counts from zero.
NextChapterOrderFromZero(chs, row) == Len(chs)
NextChapterOrder(chs, row) == Len(chs) + 1

\* The chapters that are kept: not (word_count == 0 and not sections)
KeepChapterWordsOnly(chapter) == chapter.word_count # 0
KeepChapter(chapter) == ~(chapter.word_count = 0 /\ chapter.sections = <<>>)

\* A fallback on any failure of the rich strategy.
FallsBackOnAnyError(lib) == lib # "ok"

\* except ModuleNotFoundError: what the rich strategy did selects the fallback.
FallsBack(lib) == lib = "missing"

\* What main does when build_outline raises: the except clause returns 1.
BuildFailedFallsThrough == [pc |-> "write_json", exit_code |-> None]
BuildFailed == [pc |-> "done", exit_code |-> <<1>>]

\* The state main starts in, for an archive whose documents are among `docs`.
InitMain(docs) ==
    /\ pc = "start"
    /\ input_exists = None
    /\ ebooklib = None
    /\ zip_ok = None
    /\ files \in [Hrefs -> docs]
    /\ spine \in SeqsUpTo(Hrefs, MaxSpine)
    /\ engine = None
    /\ spine_rows = <<>>
    /\ row_index = 1
    /\ chapters = <<>>
    /\ seen_hrefs = {}
    /\ parse_log = <<>>
    /\ outline = None
    /\ json_written = FALSE
    /\ md_written = FALSE
    /\ exit_code = None
    /\ ParserIdle /\ HashIdle /\ InferIdle /\ ZipIdle

\* main up to the call of build_outline: a missing input file ends the run.
MainCheckInput ==
    /\ pc = "start"
    /\ \E exists \in BOOLEAN :
          /\ input_exists' = <<exists>>
          /\ IF exists
             THEN pc' = "load" /\ exit_code' = exit_code
             ELSE pc' = "done" /\ exit_code' = <<1>>
    /\ UNCHANGED <<ebooklib, zip_ok, files, spine, engine, spine_rows, row_index, chapters,
                   seen_hrefs, parse_log, outline, json_written, md_written>>
    /\ UNCHANGED <<parserVars, hashVars, inferVars, zipVars>>

\* build_outline up to its loop: the rich strategy, the fallback when the
\* library is missing, and the test for an empty spine.  `lib` is what the
\* rich strategy does, `zok` whether the fallback can read the container.
BuildOutlineLoad ==
    /\ pc = "load"
    /\ \E lib \in {"ok", "missing", "error"}, zok \in BOOLEAN :
          LET rows == SpineRows(files, spine)
              loaded == lib = "ok" \/ (FallsBack(lib) /\ zok)
          IN  /\ ebooklib' = <<lib>>
              /\ zip_ok' = IF FallsBack(lib) THEN <<zok>> ELSE zip_ok
              /\ engine' = IF FallsBack(lib) THEN <<"zip_fallback">> ELSE <<"ebooklib">>
              /\ spine_rows' = IF loaded THEN rows ELSE spine_rows
              /\ IF loaded /\ rows # <<>>
                 THEN pc' = "loop" /\ exit_code' = exit_code
                 ELSE pc' = BuildFailed.pc /\ exit_code' = BuildFailed.exit_code
    /\ UNCHANGED <<input_exists, files, spine, row_index, chapters, seen_hrefs, parse_log,
                   outline, json_written, md_written>>
    /\ UNCHANGED <<parserVars, hashVars, inferVars, zipVars>>

\* One iteration of the loop of build_outline over spine_rows.
BuildOutlineStep ==
    /\ pc = "loop"
    /\ row_index <= Len(spine_rows)
    /\ LET row == spine_rows[row_index]
           chapter == parse_document(NextChapterOrder(chapters, row), row.href, row.content)
       IN  IF AlreadySeen(row.href, seen_hrefs)
           THEN UNCHANGED <<seen_hrefs, parse_log, chapters>>
           ELSE /\ seen_hrefs' = seen_hrefs \cup {row.href}
                /\ parse_log' = Append(parse_log, row_index)
                /\ chapters' = IF KeepChapter(chapter) THEN Append(chapters, chapter)
                               ELSE chapters
    /\ row_index' = row_index + 1
    /\ UNCHANGED <<pc, input_exists, ebooklib, zip_ok, files, spine, engine, spine_rows,
                   outline, json_written, md_written, exit_code>>
    /\ UNCHANGED <<parserVars, hashVars, inferVars, zipVars>>

\* build_outline after its loop: no chapter is fatal; otherwise the header is
\* computed (file_sha256 and stat can fail: header_ok) and the outline returned.
BuildOutlineReturn ==
    /\ pc = "loop"
    /\ row_index > Len(spine_rows)
    /\ \E header_ok \in BOOLEAN :
          IF chapters # <<>> /\ header_ok
          THEN /\ outline' = <<[engine |-> engine[1], chapters |-> chapters]>>
               /\ pc' = "write_json"
               /\ exit_code' = exit_code
          ELSE /\ outline' = outline
               /\ pc' = BuildFailed.pc
               /\ exit_code' = BuildFailed.exit_code
    /\ UNCHANGED <<input_exists, ebooklib, zip_ok, files, spine, engine, spine_rows,
                   row_index, chapters, seen_hrefs, parse_log, json_written, md_written>>
    /\ UNCHANGED <<parserVars, hashVars, inferVars, zipVars>>

\* main: the two mkdir calls and the write of the JSON file; either can raise.
MainWriteJson ==
    /\ pc = "write_json"
    /\ \E io_ok \in BOOLEAN :
          IF io_ok THEN json_written' = TRUE /\ pc' = "write_md"
          ELSE json_written' = json_written /\ pc' = "raised"
    /\ UNCHANGED <<input_exists, ebooklib, zip_ok, files, spine, engine, spine_rows,
                   row_index, chapters, seen_hrefs, parse_log, outline, md_written,
                   exit_code>>
    /\ UNCHANGED <<parserVars, hashVars, inferVars, zipVars>>

\* main: write_markdown(outline, md_output); the write can raise.
MainWriteMarkdown ==
    /\ pc = "write_md"
    /\ \E io_ok \in BOOLEAN :
          IF io_ok THEN md_written' = TRUE /\ pc' = "report"
          ELSE md_written' = md_written /\ pc' = "raised"
    /\ UNCHANGED <<input_exists, ebooklib, zip_ok, files, spine, engine, spine_rows,
                   row_index, chapters, seen_hrefs, parse_log, outline, json_written,
                   exit_code>>
    /\ UNCHANGED <<parserVars, hashVars, inferVars, zipVars>>

\* main: the summary line and return 0.
MainReturn ==
    /\ pc = "report"
    /\ pc' = "done"
    /\ exit_code' = <<0>>
    /\ UNCHANGED <<input_exists, ebooklib, zip_ok, files, spine, engine, spine_rows,
                   row_index, chapters, seen_hrefs, parse_log, outline, json_written,
                   md_written>>
    /\ UNCHANGED <<parserVars, hashVars, inferVars, zipVars>>

Next ==
    \/ MainCheckInput
    \/ BuildOutlineLoad
    \/ BuildOutlineStep
    \/ BuildOutlineReturn
    \/ MainWriteJson
    \/ MainWriteMarkdown
    \/ MainReturn

Init == InitMain(DocSet)

Spec == Init /\ [][Next]_vars

\* The same program on archives with malformed documents.
InitMalformed == InitMain(DocSetMalformed)

SpecMalformed == InitMalformed /\ [][Next]_vars

(***************************************************************************)
(* load_spine_from_zip, from the parsed package document on, and the loop  *)
(* of build_outline over the rows it yields.  The content of a row is      *)
(* modelled by the name of the archive entry it was read from.             *)
(***************************************************************************)
RECURSIVE PosixSplit(_, _)
\* path.split("/"): every piece between slashes, the empty ones included.
PosixSplit(s, cur) ==
    IF s = <<>> THEN <<cur>>
    ELSE IF Head(s) = "/" THEN <<cur>> \o PosixSplit(Tail(s), <<>>)
    ELSE PosixSplit(Tail(s), Append(cur, Head(s)))

\* posixpath.dirname
posixpath_dirname(path) ==
    LET slashes == {k \in 1..Len(path) : path[k] = "/"}
        i == IF slashes = {} THEN 0 ELSE CHOOSE k \in slashes : \A m \in slashes : m <= k
        head == SubSeq(path, 1, i)
        kept == {k \in 1..Len(head) : head[k] # "/"}
        last == CHOOSE k \in kept : \A m \in kept : m <= k
    IN  IF kept = {} THEN head ELSE SubSeq(head, 1, last)

\* posixpath.join of two paths
posixpath_join(a, b) ==
    IF b # <<>> /\ b[1] = "/" THEN b
    ELSE IF a = <<>> \/ a[Len(a)] = "/" THEN a \o b
    ELSE a \o <<"/">> \o b

RECURSIVE NormComps(_, _, _)
\* The loop of posixpath.normpath over the components.
NormComps(comps, new_comps, initial_slashes) ==
    IF comps = <<>> THEN new_comps
    ELSE LET comp == Head(comps)
             n == Len(new_comps)
         IN  IF comp = <<>> \/ comp = <<".">>
             THEN NormComps(Tail(comps), new_comps, initial_slashes)
             ELSE IF \/ comp # <<".", ".">>
                     \/ (initial_slashes = 0 /\ n = 0)
                     \/ (n > 0 /\ new_comps[n] = <<".", ".">>)
             THEN NormComps(Tail(comps), Append(new_comps, comp), initial_slashes)
             ELSE IF n > 0
             THEN NormComps(Tail(comps), SubSeq(new_comps, 1, n - 1), initial_slashes)
             ELSE NormComps(Tail(comps), new_comps, initial_slashes)

\* posixpath.normpath
posixpath_normpath(path) ==
    LET starts(k) == Len(path) >= k /\ \A m \in 1..k : path[m] = "/"
        initial_slashes == IF ~starts(1) THEN 0
                           ELSE IF starts(2) /\ ~starts(3) THEN 2 ELSE 1
        comps == NormComps(PosixSplit(path, <<>>), <<>>, initial_slashes)
        joined == [k \in 1..initial_slashes |-> "/"] \o Join(comps, <<"/">>)
    IN  IF joined = <<>> THEN <<".">> ELSE joined

\* `sub in s` for two strings.
Contains(s, sub) ==
    \E k \in 0..(Len(s) - Len(sub)) : SubSeq(s, k + 1, k + Len(sub)) = sub

\* "xhtml" in media_type or "html" in media_type
IsHtmlMedia(media_type) ==
    Contains(media_type, <<"x", "h", "t", "m", "l">>) \/ Contains(media_type, <<"h", "t", "m", "l">>)

\* The dict `manifest` / `manifest_media` built from the <item> elements: an
\* item counts when it has an id and an href, and a later item replaces an
\* earlier one with the same id.
ManifestOf(items) ==
    LET good == {k \in 1..Len(items) : items[k].id # "" /\ items[k].href # <<>>}
    IN  [id \in {items[k].id : k \in good} |->
            items[CHOOSE k \in good : items[k].id = id /\ \A m \in good : items[m].id = id => m <= k]]

\* One iteration of the loop over the itemrefs: <<>> when the itemref is
\* passed over, or else the row that is yielded.
ZipRow(manifest, opf_dir, archive, idref, order) ==
    IF idref = "" \/ idref \notin DOMAIN manifest THEN <<>>
    ELSE IF ~IsHtmlMedia(manifest[idref].media_type) THEN <<>>
    ELSE LET href == manifest[idref].href
             archive_path == posixpath_normpath(posixpath_join(opf_dir, href))
         IN  IF archive_path \notin archive THEN <<>>
             ELSE <<[order |-> order + 1, href |-> href, content |-> archive_path]>>

RECURSIVE ParsedRows(_, _)
\* The rows the loop of build_outline passes to parse_document: those whose
\* href was not seen before.
ParsedRows(rows, seen) ==
    IF rows = <<>> THEN <<>>
    ELSE IF AlreadySeen(Head(rows).href, seen) THEN ParsedRows(Tail(rows), seen)
    ELSE <<Head(rows)>> \o ParsedRows(Tail(rows), seen \cup {Head(rows).href})

\* The package documents and archives of the model.
MediaXhtml ==
    <<"a", "p", "p", "l", "i", "c", "a", "t", "i", "o", "n", "/", "x", "h", "t", "m", "l",
      "+", "x", "m", "l">>
MediaCss == <<"t", "e", "x", "t", "/", "c", "s", "s">>
HrefDotCh01 == <<".", "/">> \o HrefCh01
HrefStyle == <<"s", "t", "y", "l", "e", ".", "c", "s", "s">>
HrefGone == <<"g", "o", "n", "e", ".", "x", "h", "t", "m", "l">>
OpfName == <<"c", "o", "n", "t", "e", "n", "t", ".", "o", "p", "f">>
DirOebps == <<"O", "E", "B", "P", "S">>

\* The <item> elements of the manifest: two items for the same document, a
\* stylesheet, a document the archive lacks, and an item without href.
ManifestItems ==
    <<[id |-> "ch1", href |-> HrefCh01, media_type |-> MediaXhtml],
      [id |-> "ch1dot", href |-> HrefDotCh01, media_type |-> MediaXhtml],
      [id |-> "cover", href |-> HrefCover, media_type |-> MediaXhtml],
      [id |-> "css", href |-> HrefStyle, media_type |-> MediaCss],
      [id |-> "gone", href |-> HrefGone, media_type |-> MediaXhtml],
      [id |-> "nohref", href |-> <<>>, media_type |-> MediaXhtml]>>

\* The idref attributes of the model: the ids above, and "" for none.
IdRefs == {"ch1", "ch1dot", "cover", "css", "gone", "nohref", ""}

\* An archive with the package document at its root, and one with it in OEBPS/.
ArchiveRoot == {OpfName, HrefCh01, HrefCover, HrefStyle}
ArchiveOebps == {posixpath_join(DirOebps, name) : name \in ArchiveRoot}

InitZip ==
    /\ \/ zip_opf_path = OpfName /\ zip_archive = ArchiveRoot
       \/ zip_opf_path = posixpath_join(DirOebps, OpfName) /\ zip_archive = ArchiveOebps
    /\ zip_itemrefs \in SeqsUpTo(IdRefs, MaxItemrefs)
    /\ zip_pos = 1
    /\ zip_order = 0
    /\ zip_rows = <<>>
    /\ zip_parsed = None
    /\ MainIdle /\ ParserIdle /\ HashIdle /\ InferIdle

\* One iteration of the loop of load_spine_from_zip over the itemrefs.
LoadSpineFromZipStep ==
    /\ zip_parsed = None
    /\ zip_pos <= Len(zip_itemrefs)
    /\ LET row == ZipRow(ManifestOf(ManifestItems), posixpath_dirname(zip_opf_path),
                         zip_archive, zip_itemrefs[zip_pos], zip_order)
       IN  /\ zip_rows' = zip_rows \o row
           /\ zip_order' = zip_order + Len(row)
    /\ zip_pos' = zip_pos + 1
    /\ UNCHANGED <<zip_opf_path, zip_archive, zip_itemrefs, zip_parsed>>
    /\ UNCHANGED <<mainVars, parserVars, hashVars, inferVars>>

\* The generator is exhausted: build_outline loops over the rows and passes
\* those with a new href to parse_document.
BuildOutlineOverZipRows ==
    /\ zip_parsed = None
    /\ zip_pos > Len(zip_itemrefs)
    /\ zip_parsed' = <<ParsedRows(zip_rows, {})>>
    /\ UNCHANGED <<zip_opf_path, zip_archive, zip_itemrefs, zip_pos, zip_order, zip_rows>>
    /\ UNCHANGED <<mainVars, parserVars, hashVars, inferVars>>

NextZip == LoadSpineFromZipStep \/ BuildOutlineOverZipRows

SpecZip == InitZip /\ [][NextZip]_vars

(***************************************************************************)
(* The claims.                                                             *)
(***************************************************************************)

\* C1: in the outline build_outline returns, the i-th chapter has order i:
\* the orders are 1..n without gaps, also when a duplicate href was skipped
\* or an empty document was dropped in between.
C1_ChapterOrdersContiguous ==
    outline # None =>
        \A i \in 1..Len(outline[1].chapters) : outline[1].chapters[i].order = i

\* A three-row spine whose first and third rows became chapters 1 and 2: the
\* second row was skipped or dropped in between.
C1_Witness ==
    /\ outline # None
    /\ Len(spine_rows) = 3
    /\ Len(outline[1].chapters) = 2
    /\ outline[1].chapters[1].href = spine_rows[1].href
    /\ outline[1].chapters[2].href = spine_rows[3].href

\* C2: no two chapters share an href; of the rows with the same href exactly
\* the first is parsed and every later one is skipped; a spine of two
\* same.xhtml entries yields exactly one chapter.
C2_HrefsUnique ==
    /\ \A i, j \in 1..Len(chapters) : chapters[i].href = chapters[j].href => i = j
    /\ pc = "loop" =>
          \A i \in 1..(row_index - 1) :
              (\E k \in 1..Len(parse_log) : parse_log[k] = i)
                  <=> (\A j \in 1..(i - 1) : spine_rows[j].href # spine_rows[i].href)
    /\ \A k, m \in 1..Len(parse_log) : parse_log[k] = parse_log[m] => k = m
    /\ (outline # None /\ spine = <<HrefSame, HrefSame>>) => Len(outline[1].chapters) = 1

\* The outline of a spine of two same.xhtml entries, with its one chapter.
C2_Witness ==
    /\ outline # None
    /\ spine = <<HrefSame, HrefSame>>
    /\ Len(outline[1].chapters) = 1
    /\ parse_log = <<1>>

\* C3: the output files are written only after build_outline has returned the
\* complete outline; when the input is missing or build_outline fails, main
\* returns 1 and has written neither file; main returns 0 only after both
\* files were written.
C3_WritesOnlyAfterOutline ==
    /\ (json_written \/ md_written) =>
          /\ outline # None
          /\ row_index > Len(spine_rows)
          /\ outline[1].chapters = chapters
    /\ (outline = None /\ pc \notin {"start", "load", "loop"}) =>
          /\ pc = "done"
          /\ exit_code = <<1>>
          /\ ~json_written /\ ~md_written
    /\ input_exists = <<FALSE>> => (pc = "done" /\ exit_code = <<1>> /\ outline = None)
    /\ exit_code = <<0>> => (json_written /\ md_written /\ outline # None)

\* main has returned 0 with both files written.
C3_Witness ==
    /\ pc = "done"
    /\ exit_code = <<0>>
    /\ json_written /\ md_written
    /\ Len(outline[1].chapters) >= 2

\* Whether the i-th event of a document lies inside <title> ... </title>.
InsideTitle(doc, i) ==
    \E j \in 1..(i - 1) :
        /\ doc[j].kind = "starttag" /\ Lower(doc[j].arg) = TagTitle
        /\ \A k \in (j + 1)..(i - 1) :
              ~(doc[k].kind = "endtag" /\ Lower(doc[k].arg) = TagTitle)

\* A document with an empty body and no headings: no heading tag, and no text
\* but whitespace outside the <title> of its head.
EmptyBodyNoHeadings(doc) ==
    \A i \in 1..Len(doc) :
        /\ ~(doc[i].kind = "starttag" /\ IsHeadingTag(Lower(doc[i].arg)))
        /\ doc[i].kind = "data" => (InsideTitle(doc, i) \/ normalize_space(doc[i].arg) = <<>>)

\* C4: when every spine document has an empty body and no headings, no
\* chapter survives, main returns 1 and no output file is written.
C4_AllEmptyIsFatal ==
    (/\ pc = "done"
     /\ input_exists = <<TRUE>>
     /\ \A i \in 1..Len(spine) : EmptyBodyNoHeadings(files[spine[i]]))
        => (exit_code = <<1>> /\ outline = None /\ ~json_written /\ ~md_written)

\* C5, as amended: the example document with href ch01.xhtml yields the title
\* "Chapter 1", exactly one emitted section, "Intro" with word_count 3, and
\* the chapter word_count 8: Chapter, 1, Hello, world, Intro, More, words, here.
C5_ExampleDocument ==
    (chapter_out # None /\ doc_prefix = DocExample /\ n_events = 0 /\ doc_href = HrefCh01)
        => /\ chapter_out[1].title = TextChapter1
           /\ Len(chapter_out[1].sections) = 1
           /\ chapter_out[1].sections[1].title = TextIntro
           /\ chapter_out[1].sections[1].word_count = 3
           /\ chapter_out[1].word_count = 8

\* parse_document has returned for exactly the example document.
C5_Witness ==
    /\ chapter_out # None
    /\ doc_prefix = DocExample
    /\ n_events = 0
    /\ doc_href = HrefCh01
    /\ chapter_out[1].href = HrefCh01

\* C5 as the spec states it: the same, with the chapter word_count 7.
C5_Original ==
    (chapter_out # None /\ doc_prefix = DocExample /\ n_events = 0 /\ doc_href = HrefCh01)
        => /\ chapter_out[1].title = TextChapter1
           /\ Len(chapter_out[1].sections) = 1
           /\ chapter_out[1].sections[1].title = TextIntro
           /\ chapter_out[1].sections[1].word_count = 3
           /\ chapter_out[1].word_count = 7

\* C6: a text event received while skip-depth > 0 leaves the total word
\* count, the content digest, the title buffer, the heading buffer and the
\* sections unchanged; and the document
\* <script>var x = "chapter 9";</script><p>real text</p> has word_count 2 and
\* no sections.
C6_SkippedTextIgnored ==
    /\ [][(/\ n_events' = n_events + 1
           /\ last_event'.kind = "data"
           /\ parser.skip_depth > 0)
          => (/\ parser'.total_word_count = parser.total_word_count
              /\ parser'.content_digest = parser.content_digest
              /\ parser'.title_parts = parser.title_parts
              /\ parser'.heading_parts = parser.heading_parts
              /\ parser'.sections = parser.sections)]_vars
    /\ [](chapter_out # None /\ doc_prefix = DocScript /\ n_events = 0
            => (chapter_out[1].word_count = 2 /\ chapter_out[1].sections = <<>>))

\* Text with words has arrived inside an open <title> and an open heading
\* while skip-depth > 0.
C6_Witness ==
    /\ n_events >= 1
    /\ last_event.kind = "data"
    /\ count_words(last_event.arg) > 0
    /\ parser.skip_depth > 0
    /\ parser.in_title
    /\ parser.heading_level # None

\* C7: a parsed (deduplicated) spine document is a chapter of the outline if
\* and only if its word count is > 0 or it has an emitted section; so every
\* chapter has word_count > 0 or at least one section.
C7_KeptIffNotEmpty ==
    /\ pc = "loop" =>
          \A k \in 1..Len(parse_log) :
              LET row == spine_rows[parse_log[k]]
                  doc == parse_document(1, row.href, row.content)
              IN  (\E i \in 1..Len(chapters) : chapters[i].href = row.href)
                      <=> (doc.word_count > 0 \/ doc.sections # <<>>)
    /\ \A i \in 1..Len(chapters) :
          chapters[i].word_count > 0 \/ chapters[i].sections # <<>>

\* The loop is over; a chapter without a word was kept for its section, and a
\* parsed document was dropped.
C7_Witness ==
    /\ pc = "loop"
    /\ row_index > Len(spine_rows)
    /\ \E i \in 1..Len(chapters) :
          chapters[i].word_count = 0 /\ chapters[i].sections # <<>>
    /\ Len(parse_log) > Len(chapters)

\* C8: the emitted sections of a chapter are numbered 1..k in document order
\* and the section of order N has the href <chapter href>#sN, also when the
\* first heading was left out of the emitted list.
C8_SectionsNumbered ==
    chapter_out # None =>
        LET emitted == chapter_out[1].sections
            found == parser.sections
            skipped == Len(found) - Len(emitted)
        IN  /\ skipped \in {0, 1}
            /\ \A i \in 1..Len(emitted) :
                  /\ emitted[i].order = i
                  /\ emitted[i].href = doc_href \o <<"#", "s">> \o Str(i)
                  /\ emitted[i].title = found[i + skipped].title

\* The first heading was left out and two later headings were emitted.
C8_Witness ==
    /\ chapter_out # None
    /\ Len(parser.sections) = 3
    /\ Len(chapter_out[1].sections) = 2

\* C9, as amended: for every non-empty prefix x of b that is not made of
\* U+001F characters only, stable_hash(a, b) differs from
\* stable_hash(a + x, b without the prefix x).
C9_SeparatorPreventsCollision ==
    (hash_done /\ \E i \in 1..hash_x : hash_b[i] # US) => hash_left # hash_right

\* stable_hash("a", "bc") and stable_hash("ab", "c") have been computed.
C9_Witness ==
    /\ hash_done
    /\ hash_a = <<"a">>
    /\ hash_b = <<"b", "c">>
    /\ hash_x = 1
    /\ hash_left # hash_right

\* C9 as the spec states it: for every non-empty prefix x of b.
C9_Original == hash_done => hash_left # hash_right

\* The number a string yields: CHAPTER_RE's when it matches, or else CH_RE's.
PatternNumber(s) ==
    IF ChapterReSearch(s) # NoMatch THEN ChapterReSearch(s) ELSE ChReSearch(s)

\* C10: infer_chapter_number returns the title's number when the title
\* matches a pattern, whatever the href holds; the href's number only when
\* the title matches neither pattern; the fallback only when neither string
\* matches; "Chapter 07" gives 7 and "ch_12" gives 12.
C10_TitleBeforeHref ==
    inf_result # None =>
        /\ PatternNumber(inf_title) # NoMatch => inf_result = PatternNumber(inf_title)
        /\ (PatternNumber(inf_title) = NoMatch /\ PatternNumber(inf_href) # NoMatch)
              => inf_result = PatternNumber(inf_href)
        /\ (PatternNumber(inf_title) = NoMatch /\ PatternNumber(inf_href) = NoMatch)
              => inf_result = <<inf_fallback>>
        /\ inf_title = PieceChapter07 => inf_result = <<7>>
        /\ (inf_title = <<"x">> /\ inf_href = PieceCh12) => inf_result = <<12>>

\* The title "Chapter 07" has won over the href "ch_12".
C10_Witness ==
    /\ inf_title = PieceChapter07
    /\ inf_href = PieceCh12
    /\ inf_result = <<7>>

\* The <title> content of the document the parser has read.
TitleContent == normalize_space(Join(parser.title_parts, <<" ">>))

\* The filename stem of the href with its runs of "_" and "-" turned into
\* spaces, before title-casing.
SpacedStem == Strip(SubDashes(PathStem(doc_href)))

\* C11, as amended: the chapter title is the first finalized heading's title
\* if a heading was found, otherwise the normalized <title> content if it is
\* non-empty, otherwise the humanized filename stem of the href, or the href
\* itself when that stem is empty; the <title> content is never used when the
\* document has a heading.
C11_ChapterTitle ==
    chapter_out # None =>
        LET title == chapter_out[1].title
            headings == parser.sections
        IN  /\ headings # <<>> => title = headings[1].title
            /\ (headings = <<>> /\ TitleContent # <<>>) => title = TitleContent
            /\ (headings = <<>> /\ TitleContent = <<>> /\ SpacedStem # <<>>)
                  => title = Title(SpacedStem)
            /\ (headings = <<>> /\ TitleContent = <<>> /\ SpacedStem = <<>>)
                  => title = doc_href
            /\ (headings = <<>> /\ TitleContent = <<>> /\ doc_href = HrefCh01)
                  => title = <<"C", "h", "0", "1">>

\* A document with a heading and a different, non-empty <title> content.
C11_Witness ==
    /\ chapter_out # None
    /\ parser.sections # <<>>
    /\ TitleContent # <<>>
    /\ TitleContent # parser.sections[1].title
    /\ chapter_out[1].title = parser.sections[1].title

\* C11 as the spec states it: without a heading and without <title> content
\* the title is always the humanized filename stem.
C11_Original ==
    chapter_out # None =>
        LET title == chapter_out[1].title
            headings == parser.sections
        IN  /\ headings # <<>> => title = headings[1].title
            /\ (headings = <<>> /\ TitleContent # <<>>) => title = TitleContent
            /\ (headings = <<>> /\ TitleContent = <<>>) => title = Title(SpacedStem)

\* The parser has just handled one more event.
EventFed == n_events' = n_events + 1

\* The last event fed was text outside the skip regions whose normalized
\* chunk is not empty.
ChunkArrived ==
    /\ EventFed
    /\ last_event'.kind = "data"
    /\ parser.skip_depth = 0
    /\ normalize_space(last_event'.arg) # <<>>

\* C12: the content digest is updated with every non-empty normalized text
\* chunk received outside the skip regions, followed by a newline byte, in
\* arrival order, and by nothing else; so documents whose sequences of such
\* chunks differ feed different byte streams to the digest.
C12_DigestEveryChunk ==
    [][/\ ChunkArrived =>
            parser'.content_digest =
                parser.content_digest \o Utf8(normalize_space(last_event'.arg)) \o <<10>>
       /\ (EventFed /\ ~ChunkArrived) => parser'.content_digest = parser.content_digest]_vars

\* The words of the text event just fed.
ArrivedWords == count_words(normalize_space(last_event'.arg))

\* C13: the words of a text chunk outside the skip regions are added to the
\* document total; they are added to a section's word_count exactly when no
\* heading is open and a heading has been finalized, and then to the most
\* recently finalized section only; while a heading is open, or before the
\* first finalized heading, the sections are left as they are.
C13_WordsGoToLastSection ==
    [][(EventFed /\ last_event'.kind = "data" /\ parser.skip_depth = 0) =>
          LET n == Len(parser.sections)
          IN  /\ parser'.total_word_count = parser.total_word_count + ArrivedWords
              /\ IF parser.heading_level = None /\ n > 0
                 THEN parser'.sections =
                          [parser.sections EXCEPT ![n].word_count = @ + ArrivedWords]
                 ELSE parser'.sections = parser.sections]_vars

\* After the example document the last section has received one more word,
\* and text with words has then arrived inside a newly opened heading.
C13_Witness ==
    /\ doc_prefix = DocExample
    /\ Len(parser.sections) = 2
    /\ parser.sections[1].word_count = 2
    /\ parser.sections[2].word_count = 4
    /\ parser.heading_level # None
    /\ last_event.kind = "data"
    /\ count_words(last_event.arg) > 0
    /\ parser.skip_depth = 0

\* The event just fed is a heading close tag.
HeadingCloseFed ==
    /\ EventFed
    /\ last_event'.kind = "endtag"
    /\ IsHeadingTag(Lower(last_event'.arg))

\* The heading close tag just fed has exactly the level of the open heading.
MatchingCloseFed ==
    /\ HeadingCloseFed
    /\ parser.heading_level # None
    /\ IsDecimal(Lower(last_event'.arg)[2])
    /\ IntOf(<<Lower(last_event'.arg)[2]>>) = parser.heading_level[1]

\* C14: a heading close tag of another level than the open heading's, or any
\* heading close tag while no heading is open, changes neither the
\* open-heading state, the heading buffer nor the section list; a matching
\* close appends a section (word_count 0, order = previous count + 1) only
\* if the normalized accumulated text is not empty, and always clears the
\* open-heading state; no other event appends a section.
C14_OnlyMatchingCloseFinalizes ==
    [][/\ (HeadingCloseFed /\ ~MatchingCloseFed) =>
            /\ parser'.heading_level = parser.heading_level
            /\ parser'.heading_parts = parser.heading_parts
            /\ parser'.sections = parser.sections
       /\ MatchingCloseFed =>
            LET heading_title == normalize_space(Join(parser.heading_parts, <<" ">>))
            IN  /\ parser'.heading_level = None
                /\ parser'.heading_parts = <<>>
                /\ parser'.sections =
                      IF heading_title = <<>> THEN parser.sections
                      ELSE Append(parser.sections,
                                  [order |-> Len(parser.sections) + 1,
                                   level |-> parser.heading_level[1],
                                   title |-> heading_title,
                                   word_count |-> 0])
       /\ (EventFed /\ ~MatchingCloseFed) => Len(parser'.sections) = Len(parser.sections)
      ]_vars

\* A close tag of level 3 has arrived while a heading of level 2 with text
\* is open, and the heading is still open.
C14_Witness ==
    /\ last_event = EndEvent(TagH3)
    /\ parser.heading_level = <<2>>
    /\ parser.heading_parts # <<>>
    /\ ~parser.raised

\* The level, title and word count of the i-th heading of a list.
HeadingFacts(rows) ==
    [i \in 1..Len(rows) |->
        <<rows[i].level, rows[i].title, rows[i].word_count>>]

\* C15: for a document with a finalized heading, the first heading is left
\* out of the emitted sections if its text equals the chapter title, case
\* ignored, and its level is <= 2; otherwise every heading is emitted, in
\* order.  The emitted list is all headings or all but the first.
C15_FirstHeadingExcluded ==
    (chapter_out # None /\ parser.sections # <<>>) =>
        LET headings == parser.sections
            emitted == chapter_out[1].sections
            mirrors == Lower(normalize_space(headings[1].title))
                           = Lower(normalize_space(chapter_out[1].title))
        IN  /\ (mirrors /\ headings[1].level <= 2)
                  => HeadingFacts(emitted) = HeadingFacts(Tail(headings))
            /\ ~(mirrors /\ headings[1].level <= 2)
                  => HeadingFacts(emitted) = HeadingFacts(headings)
            /\ HeadingFacts(emitted) \in {HeadingFacts(headings), HeadingFacts(Tail(headings))}

\* A first heading of level 3 that is the chapter title and is emitted, with
\* a later heading after it.
C15_Witness ==
    /\ chapter_out # None
    /\ Len(parser.sections) >= 2
    /\ parser.sections[1].level = 3
    /\ chapter_out[1].title = parser.sections[1].title
    /\ Len(chapter_out[1].sections) = Len(parser.sections)

\* C16: every row the zip strategy yields carries the resolved archive path
\* as its document path (the name of the entry its content was read from),
\* and the orders of the rows are 1, 2, 3, ...; so of two spine references
\* that resolve to the same archive entry only the first is parsed.
C16_ZipRowsCarryArchivePath ==
    /\ \A i \in 1..Len(zip_rows) :
          /\ zip_rows[i].order = i
          /\ zip_rows[i].href = zip_rows[i].content
    /\ zip_parsed # None =>
          \A i, j \in 1..Len(zip_parsed[1]) :
              zip_parsed[1][i].content = zip_parsed[1][j].content => i = j

\* C17: build_outline runs the zip strategy if and only if the rich strategy
\* failed for a missing dependency; engine is "zip_fallback" exactly then and
\* "ebooklib" otherwise; another failure of the rich strategy is fatal and the
\* fallback is not tried; an empty spine list is fatal.
C17_FallbackOnlyWhenMissing ==
    ebooklib # None =>
        /\ zip_ok # None <=> ebooklib = <<"missing">>
        /\ engine = IF ebooklib = <<"missing">> THEN <<"zip_fallback">> ELSE <<"ebooklib">>
        /\ outline # None => outline[1].engine = engine[1]
        /\ ebooklib = <<"error">> =>
              /\ pc = "done" /\ exit_code = <<1>>
              /\ outline = None /\ parse_log = <<>>
        /\ zip_ok = <<FALSE>> =>
              /\ pc = "done" /\ exit_code = <<1>>
              /\ outline = None /\ parse_log = <<>>
        /\ spine = <<>> =>
              /\ pc = "done" /\ exit_code = <<1>>
              /\ outline = None

\* The library was missing, the zip strategy ran and its rows became the
\* outline.
C17_Witness ==
    /\ ebooklib = <<"missing">>
    /\ zip_ok = <<TRUE>>
    /\ outline # None
    /\ outline[1].engine = "zip_fallback"

\* The position of the first event of a document whose handler raises, or 0.
FailurePoint(doc) ==
    LET failing == {i \in 1..Len(doc) :
                       /\ ~Feed(NewParser, SubSeq(doc, 1, i - 1)).raised
                       /\ Handle(Feed(NewParser, SubSeq(doc, 1, i - 1)), doc[i]).raised}
    IN  IF failing = {} THEN 0 ELSE CHOOSE i \in failing : TRUE

\* The parser after the events of a document that precede its failure point.
BeforeFailure(doc) == Feed(NewParser, SubSeq(doc, 1, FailurePoint(doc) - 1))

\* Both, for every document of the runs over malformed markup.
FailurePoints == [doc \in DocSetMalformed |-> FailurePoint(doc)]
ParsersBeforeFailure == [doc \in DocSetMalformed |-> BeforeFailure(doc)]

\* C18: when a handler raises in the middle of a document, parse_document
\* returns the chapter built from exactly the sections, the total word count
\* and the content digest of the events handled before the failure (the
\* chapter is dropped when these are empty), and build_outline goes on with
\* the next spine entry: the failure alone never ends the run.
C18_PartialStateKept ==
    /\ \A k \in 1..Len(parse_log) :
          LET row == spine_rows[parse_log[k]]
              before == ParsersBeforeFailure[row.content]
              rows == SectionRows(before.sections, ChapterTitle(before, row.href))
              here == {c \in 1..Len(chapters) : chapters[c].href = row.href}
          IN  FailurePoints[row.content] > 0 =>
                  /\ (before.total_word_count = 0 /\ rows = <<>>) <=> here = {}
                  /\ \A c \in here :
                        /\ chapters[c].word_count = before.total_word_count
                        /\ chapters[c].title = ChapterTitle(before, row.href)
                        /\ HeadingFacts(chapters[c].sections) = HeadingFacts(rows)
                        /\ chapters[c].hash =
                              stable_hash(<<row.href, chapters[c].title,
                                            Str(before.total_word_count),
                                            hexdigest(before.content_digest)>>)
    /\ pc = "loop" =>
          \A i \in 1..(row_index - 1) : spine_rows[i].href \in seen_hrefs
    /\ (pc \notin {"start", "load", "loop"} /\ spine_rows # <<>>) =>
          /\ row_index = Len(spine_rows) + 1
          /\ \A i \in 1..Len(spine_rows) :
                \E k \in 1..Len(parse_log) : spine_rows[parse_log[k]].href = spine_rows[i].href

\* An outline whose first chapter is what was read of a document before it
\* failed, followed by a chapter of a later spine entry; a document that
\* failed at its first event was dropped on the way.
C18_Witness ==
    /\ outline # None
    /\ Len(spine_rows) = 3
    /\ spine_rows[1].content = DocBroken
    /\ spine_rows[2].content = DocBrokenAtOnce
    /\ Len(outline[1].chapters) = 2
    /\ outline[1].chapters[1].word_count = 2
    /\ outline[1].chapters[2].href = spine_rows[3].href

\* Whether neither the title nor the href of a chapter matches a
\* chapter-number pattern.
NoNumberHint(chapter) ==
    PatternNumber(chapter.title) = NoMatch /\ PatternNumber(chapter.href) = NoMatch

\* The rank of an href among the distinct hrefs of the spine, in the order of
\* their first occurrence.
DedupRank(href) ==
    LET first == CHOOSE i \in 1..Len(spine_rows) :
                     /\ spine_rows[i].href = href
                     /\ \A j \in 1..(i - 1) : spine_rows[j].href # href
    IN  Cardinality({spine_rows[j].href : j \in 1..first})

\* C19, as amended: for a chapter whose title and href match no
\* chapter-number pattern, chapter_number is the fallback the assembler
\* passes, which is the chapter's order: its 1-based position among the
\* chapters that were kept.
C19_FallbackIsChapterOrder ==
    \A c \in 1..Len(chapters) :
        NoNumberHint(chapters[c]) =>
            (chapters[c].chapter_number = c /\ chapters[c].chapter_number = chapters[c].order)

\* The first chapter of the outline comes from the second distinct href of
\* the spine, matches no pattern and has chapter_number 1.
C19_Witness ==
    /\ outline # None
    /\ NoNumberHint(outline[1].chapters[1])
    /\ DedupRank(outline[1].chapters[1].href) = 2
    /\ outline[1].chapters[1].chapter_number = 1

\* C19 as the spec states it: the fallback is the chapter's position in the
\* deduplicated spine.
C19_Original ==
    \A c \in 1..Len(chapters) :
        NoNumberHint(chapters[c]) =>
            chapters[c].chapter_number = DedupRank(chapters[c].href)

\* Whether an event is a close tag of a skip region: </script> or </style>.
IsSkipClose(ev) == ev.kind = "endtag" /\ Lower(ev.arg) \in {TagScript, TagStyle}

\* C20: the skip-depth of the parser is never negative; a </script> or
\* </style> received at skip-depth 0 leaves the depth at 0 and changes no
\* other parser state; and the text that follows such a close is counted.
C20_SkipDepthNeverNegative ==
    /\ [](parser.skip_depth >= 0)
    /\ [][/\ (EventFed /\ IsSkipClose(last_event') /\ parser.skip_depth = 0)
                => parser' = parser
          /\ (EventFed /\ last_event'.kind = "data" /\ IsSkipClose(last_event)
                /\ parser.skip_depth = 0)
                => /\ parser'.total_word_count = parser.total_word_count + ArrivedWords
                   /\ ArrivedWords > 0 => parser'.content_digest # parser.content_digest
         ]_vars

\* A </STYLE> without an open skip region has arrived right after the
\* example document: the depth is 0 and the document's counts are as before.
C20_Witness ==
    /\ doc_prefix = DocExample
    /\ n_events = 1
    /\ last_event = EndEvent(TagStyleUpper)
    /\ parser.skip_depth = 0
    /\ parser.total_word_count = 8

=============================================================================
